---- MODULE Spec2Model ----
(***************************************************************************)
(* Model of email_validator.py: the pure function validate_email and the  *)
(* command-line wrapper main.                                              *)
(*                                                                         *)
(* A Python str is a sequence of one-character strings.  A Python value   *)
(* is a record [type, val]; only values of type "str" are text.           *)
(***************************************************************************)
EXTENDS Integers, Sequences, FiniteSets, TLC

VARIABLES email, result, pc, argv, idx, stdout, exit_code, calls

vars == <<email, result, pc, argv, idx, stdout, exit_code, calls>>

(***************************************************************************)
(* Bounds of the input space.                                              *)
(***************************************************************************)
MaxLen == 3        \* every text of at most this many characters
MaxDomainLen == 4  \* "a@" followed by every '@'-free text of at most this length
MaxLocalLen == 3   \* every '@'-free text of at most this length, followed by "@a.aa"
MaxEdits == 1      \* texts within this many edits of "a.a@a.aa"
MaxPad == 1        \* whitespace added on each side of a text
MaxArgs == 2       \* command-line arguments

(***************************************************************************)
(* Program constants.                                                      *)
(***************************************************************************)
MAX_LOCAL == 64
MAX_DOMAIN == 255
\* Mutant of MAX_EMAIL: the cap is taken to be local + '@' + domain.
MAX_EMAIL_sum == MAX_LOCAL + 1 + MAX_DOMAIN
MAX_EMAIL == 254
MAX_LABEL == 63
LABEL_INNER == 61
TLD_MIN == 2
TLD_MAX == 63

Lower == {"a","b","c","d","e","f","g","h","i","j","k","l","m",
          "n","o","p","q","r","s","t","u","v","w","x","y","z"}
Upper == {"A","B","C","D","E","F","G","H","I","J","K","L","M",
          "N","O","P","Q","R","S","T","U","V","W","X","Y","Z"}
Digits == {"0","1","2","3","4","5","6","7","8","9"}
\* The grave accent cannot be written inside a TLA+ string: it is named instead.
Grave == "U+0060"
Specials == {"!","#","$","%","&","'","*","+","/","=","?","^","_",Grave,
             "{","|","}","~",".","-"}

_LOCAL_ALLOWED == Lower \cup Upper \cup Digits \cup Specials

\* The ASCII characters str.strip() removes (str.isspace).
Whitespace == {" ", "\t", "\n", "\r", "\f"}

(***************************************************************************)
(* String helpers, each computed as the Python built-in computes it.       *)
(***************************************************************************)
Rep(c, n) == [i \in 1..n |-> c]

SetMin(S) == CHOOSE x \in S : \A y \in S : x <= y
SetMax(S) == CHOOSE x \in S : \A y \in S : x >= y

\* Mutant of strip: only the leading whitespace is removed (str.lstrip).
strip_left(s) ==
  LET keep == {i \in 1..Len(s) : s[i] \notin Whitespace}
  IN  IF keep = {} THEN <<>> ELSE SubSeq(s, SetMin(keep), Len(s))

strip(s) ==
  LET keep == {i \in 1..Len(s) : s[i] \notin Whitespace}
  IN  IF keep = {} THEN <<>> ELSE SubSeq(s, SetMin(keep), SetMax(keep))

\* Mutant of count: whether c occurs at all ('@' in email), not how often.
count_any(s, c) == IF \E i \in 1..Len(s) : s[i] = c THEN 1 ELSE 0

count(s, c) == Cardinality({i \in 1..Len(s) : s[i] = c})

\* s.rsplit(c, 1) for an s that holds c: the text before and after the last c.
rsplit(s, c) ==
  LET p == SetMax({i \in 1..Len(s) : s[i] = c})
  IN  <<SubSeq(s, 1, p - 1), SubSeq(s, p + 1, Len(s))>>

startswith(s, c) == Len(s) >= 1 /\ s[1] = c
\* Mutant of endswith: the character before the last is looked at.
endswith_off(s, c) == Len(s) >= 2 /\ s[Len(s) - 1] = c

endswith(s, c) == Len(s) >= 1 /\ s[Len(s)] = c
contains2(s, c) == \E i \in 1..(Len(s) - 1) : s[i] = c /\ s[i + 1] = c

\* s.split(c): the texts between the occurrences of c, in order.
split(s, c) ==
  LET at == {i \in 1..Len(s) : s[i] = c}
      n == Cardinality(at)
      cut(k) == IF k = 0 THEN 0
                ELSE IF k = n + 1 THEN Len(s) + 1
                ELSE CHOOSE p \in at : Cardinality({q \in at : q < p}) = k - 1
  IN  [k \in 1..(n + 1) |-> SubSeq(s, cut(k - 1) + 1, cut(k) - 1)]

\* repr(ch) of a one-character str.
repr(ch) ==
  CASE ch = "\n" -> <<"'", "\\", "n", "'">>
    [] ch = "\t" -> <<"'", "\\", "t", "'">>
    [] ch = "\r" -> <<"'", "\\", "r", "'">>
    [] ch = "\f" -> <<"'", "\\", "x", "0", "c", "'">>
    [] ch = "\\" -> <<"'", "\\", "\\", "'">>
    [] ch = "'"  -> <<"\"", "'", "\"">>
    [] OTHER     -> <<"'", ch, "'">>

(***************************************************************************)
(* Regular expressions.  pattern.match(s) with ^...$ : "$" matches at the  *)
(* end of s and also just before a newline that ends s.                    *)
(***************************************************************************)
AlNum == Lower \cup Upper \cup Digits
Alpha == Lower \cup Upper

\* The text "$" may leave unmatched: s without the newline that ends it.
BeforeFinalNewline(s) ==
  IF Len(s) >= 1 /\ s[Len(s)] = "\n" THEN SubSeq(s, 1, Len(s) - 1) ELSE s

\* [A-Za-z0-9](?:[A-Za-z0-9-]{0,61}[A-Za-z0-9])?  over the whole of t
LabelBody(t) ==
  /\ Len(t) >= 1
  /\ t[1] \in AlNum
  /\ \/ Len(t) = 1
     \/ /\ Len(t) - 2 <= LABEL_INNER
        /\ \A i \in 2..(Len(t) - 1) : t[i] \in AlNum \cup {"-"}
        /\ t[Len(t)] \in AlNum

_label_re(s) == LabelBody(s) \/ LabelBody(BeforeFinalNewline(s))

\* Mutant of TldBody: digits are let through, [A-Za-z0-9]{2,63}.
TldBody_alnum(t) ==
  /\ Len(t) >= TLD_MIN
  /\ Len(t) <= TLD_MAX
  /\ \A i \in 1..Len(t) : t[i] \in AlNum

\* [A-Za-z]{2,63}  over the whole of t
TldBody(t) ==
  /\ Len(t) >= TLD_MIN
  /\ Len(t) <= TLD_MAX
  /\ \A i \in 1..Len(t) : t[i] \in Alpha

_tld_re(s) == TldBody(s) \/ TldBody(BeforeFinalNewline(s))

(***************************************************************************)
(* validate_email.  The result is the pair (valid, reason); a reason is    *)
(* its message with the formatted value, if any, kept apart in arg.        *)
(* An assignment x = value followed by the rest of the function is         *)
(* CHOOSE r \in {Rest(x) : x \in {value}} : TRUE, which is Rest(value)     *)
(* with value computed once.                                               *)
(***************************************************************************)
Ok == [valid |-> TRUE, reason |-> [msg |-> "OK", arg |-> <<>>]]
Fail(m) == [valid |-> FALSE, reason |-> [msg |-> m, arg |-> <<>>]]
FailArg(m, a) == [valid |-> FALSE, reason |-> [msg |-> m, arg |-> a]]

R_NotStr == "Email must be a string."
R_Empty == "Email is empty after stripping whitespace."
R_TooLong == "Email is too long (more than 254 characters)."
R_AtCount == "Email must contain exactly one '@' character."
R_LocalEmpty == "Local part (before '@') is empty."
R_LocalLong == "Local part is too long (more than 64 characters)."
R_LocalEdgeDot == "Local part must not start or end with a dot."
R_LocalDotDot == "Local part must not contain consecutive dots."
R_LocalChar == "Invalid character in local part: {repr(ch)}"
R_DomainEmpty == "Domain part (after '@') is empty."
R_DomainLong == "Domain part is too long (more than 255 characters)."
R_DomainEdgeDot == "Domain must not start or end with a dot."
R_DomainDotDot == "Domain must not contain consecutive dots."
R_NoDot == "Domain should contain at least one dot (e.g., example.com)."
R_LabelEmpty == "Empty domain label (consecutive dots or leading/trailing dot)."
R_LabelLong == "Domain label '{label}' is too long (more than 63 chars)."
R_LabelBad == "Invalid domain label: '{label}'. Labels must start and end with letter or digit; internal chars may include hyphens."
R_Tld == "Top-level domain '{tld}' must be alphabetic and 2-63 characters long."

\* Lines 101-107: the TLD check and the final return.
CheckTld(labels) ==
  LET tld == labels[Len(labels)]
  IN  IF ~_tld_re(tld) THEN FailArg(R_Tld, tld) ELSE Ok

\* Lines 93-99: the loop over the labels returns at the first label that
\* fails one of its three checks, with the reason of the first that fails.
CheckLabels(labels) ==
  LET failing == {i \in 1..Len(labels) :
                    \/ labels[i] = <<>>
                    \/ Len(labels[i]) > MAX_LABEL
                    \/ ~_label_re(labels[i])}
  IN  IF failing = {} THEN CheckTld(labels)
      ELSE LET label == labels[SetMin(failing)]
           IN  IF label = <<>> THEN Fail(R_LabelEmpty)
               ELSE IF Len(label) > MAX_LABEL THEN FailArg(R_LabelLong, label)
               ELSE FailArg(R_LabelBad, label)

\* Lines 75-90: the checks of the domain as a whole.
CheckDomain(domain) ==
  IF domain = <<>> THEN Fail(R_DomainEmpty)
  ELSE IF Len(domain) > MAX_DOMAIN THEN Fail(R_DomainLong)
  ELSE IF startswith(domain, ".") \/ endswith(domain, ".") THEN Fail(R_DomainEdgeDot)
  ELSE IF contains2(domain, ".") THEN Fail(R_DomainDotDot)
  ELSE LET AfterSplit(labels) ==
             IF Len(labels) < 2 THEN Fail(R_NoDot)
             ELSE CheckLabels(labels)
       IN  CHOOSE r \in {AfterSplit(labels) : labels \in {split(domain, ".")}} : TRUE

\* Mutant of first_disallowed: the last disallowed character is reported.
last_disallowed(local) ==
  LET bad == {i \in 1..Len(local) : local[i] \notin _LOCAL_ALLOWED}
  IN  IF bad = {} THEN 0 ELSE SetMax(bad)

\* Lines 71-73: the index at which the loop over the local part returns, 0
\* when it runs to its end.
first_disallowed(local) ==
  LET bad == {i \in 1..Len(local) : local[i] \notin _LOCAL_ALLOWED}
  IN  IF bad = {} THEN 0 ELSE SetMin(bad)

\* Lines 58-73: the checks of the local part.
CheckLocal(local, domain) ==
  IF local = <<>> THEN Fail(R_LocalEmpty)
  ELSE IF Len(local) > MAX_LOCAL THEN Fail(R_LocalLong)
  ELSE IF startswith(local, ".") \/ endswith(local, ".") THEN Fail(R_LocalEdgeDot)
  ELSE IF contains2(local, ".") THEN Fail(R_LocalDotDot)
  ELSE LET i == first_disallowed(local)
       IN  IF i # 0 THEN FailArg(R_LocalChar, repr(local[i]))
           ELSE CheckDomain(domain)

\* Lines 44-56: strip, the overall checks and the split at '@'.
CheckText(text) ==
  LET AfterSplit(parts) == CheckLocal(parts[1], parts[2])
      AfterStrip(e) ==
        IF e = <<>> THEN Fail(R_Empty)
        ELSE IF Len(e) > MAX_EMAIL THEN Fail(R_TooLong)
        ELSE IF count(e, "@") # 1 THEN Fail(R_AtCount)
        ELSE CHOOSE r \in {AfterSplit(parts) : parts \in {rsplit(e, "@")}} : TRUE
  IN  CHOOSE r \in {AfterStrip(e) : e \in {strip(text)}} : TRUE

\* Mutant of isinstance_str: bytes pass as text too.
isinstance_str_or_bytes(v) == v.type \in {"str", "bytes"}

isinstance_str(v) == v.type = "str"

validate_email(v) ==
  IF ~isinstance_str(v) THEN Fail(R_NotStr)
  ELSE CheckText(v.val)

(***************************************************************************)
(* The inputs.                                                             *)
(***************************************************************************)
Alphabet == {"a", "1", ".", "@", "-", "+", " ", "\n"}

Str(s) == [type |-> "str", val |-> s]

RECURSIVE TextsOver(_, _)
TextsOver(A, n) ==
  IF n = 0 THEN {<<>>}
  ELSE LET shorter == TextsOver(A, n - 1)
       IN  shorter \cup {Append(s, c) : s \in {t \in shorter : Len(t) = n - 1}, c \in A}

Texts(n) == TextsOver(Alphabet, n)

Base == <<"a", ".", "a", "@", "a", ".", "a", "a">>

\* s, and s with one character removed, replaced or inserted.
Edits1(s) ==
  {s} \cup {SubSeq(s, 1, i - 1) \o SubSeq(s, i + 1, Len(s)) : i \in 1..Len(s)}
      \cup {SubSeq(s, 1, i - 1) \o <<c>> \o SubSeq(s, i + 1, Len(s)) :
                i \in 1..Len(s), c \in Alphabet}
      \cup {SubSeq(s, 1, i) \o <<c>> \o SubSeq(s, i + 1, Len(s)) :
                i \in 0..Len(s), c \in Alphabet}

RECURSIVE Edits(_, _)
Edits(S, n) ==
  IF n = 0 THEN S ELSE Edits(UNION {Edits1(s) : s \in S}, n - 1)

\* Addresses local@label[.label].tld of letters, with lengths around the limits,
\* and two texts without '@' around the overall limit.
LongTexts ==
  {Rep("a", l) \o <<"@">> \o Rep("a", d1) \o
     (IF d2 = 0 THEN <<>> ELSE <<".">> \o Rep("a", d2)) \o <<".">> \o Rep("a", t) :
     l \in {1, MAX_LOCAL, MAX_LOCAL + 1},
     d1 \in {1, MAX_LABEL, MAX_LABEL + 1, MAX_DOMAIN + 1},
     d2 \in {0, MAX_LABEL},
     t \in {TLD_MIN, MAX_LABEL - 2, MAX_LABEL - 1, MAX_LABEL, MAX_LABEL + 1}}
  \cup {Rep("a", 254), Rep("a", 255)}

TextInputs ==
  Texts(MaxLen)
    \cup {<<"a", "@">> \o d : d \in TextsOver(Alphabet \ {"@"}, MaxDomainLen)}
    \cup {l \o <<"@", "a", ".", "a", "a">> : l \in TextsOver(Alphabet \ {"@"}, MaxLocalLen)}
    \cup Edits({Base}, MaxEdits)
    \cup LongTexts

NonText ==
  {[type |-> "NoneType", val |-> <<>>],
   [type |-> "int", val |-> <<>>],
   [type |-> "list", val |-> <<"a", "@", "a", ".", "a", "a">>],
   [type |-> "bytes", val |-> <<"a", "@", "a", ".", "a", "a">>]}

Inputs == {Str(s) : s \in TextInputs} \cup NonText


NoResult == [valid |-> FALSE, reason |-> [msg |-> "", arg |-> <<>>]]
NoValue == [type |-> "NoneType", val |-> <<>>]

(***************************************************************************)
(* Spec: a caller that imports validate_email and calls it on one value.   *)
(***************************************************************************)
Init ==
  /\ email \in Inputs
  /\ result = NoResult
  /\ pc = "call"
  /\ argv = <<>>
  /\ idx = 0
  /\ stdout = <<>>
  /\ exit_code = -1
  /\ calls = 0

Validate ==
  /\ pc = "call"
  /\ result' = validate_email(email)
  /\ calls' = calls + 1
  /\ pc' = "returned"
  /\ UNCHANGED <<email, argv, idx, stdout, exit_code>>

Next == Validate

Spec == Init /\ [][Next]_vars

(***************************************************************************)
(* SpecCli: the command-line wrapper main.  argv is sys.argv[1:], stdout   *)
(* the print calls made so far, exit_code the exit status of the process   *)
(* (-1 while it runs), calls the number of validate_email calls made.      *)
(* The run starts in the shell, which picks the arguments.                 *)
(***************************************************************************)
CliTexts ==
  {<<>>,
   <<"a", "@", "a", ".", "a", "a">>,
   <<"a", "@", "a">>,
   <<"a", " ", "a", "@", "a", ".", "a", "a">>,
   <<"a", "@", "a", "@", "a", ".", "a", "a">>,
   <<"a", "@", "a", ".", "1">>}

RECURSIVE ArgLists(_)
ArgLists(n) ==
  IF n = 0 THEN {<<>>}
  ELSE LET shorter == ArgLists(n - 1)
       IN  shorter \cup {Append(a, t) : a \in {b \in shorter : Len(b) = n - 1}, t \in CliTexts}

Line(text, em, reason) == [text |-> text, em |-> em, reason |-> reason]
NoReason == [msg |-> "", arg |-> <<>>]

UsageText ==
  <<Line("Usage: python email_validator.py <email1> [<email2> ...]", <<>>, NoReason),
    Line("Or import validate_email(email) in your code.", <<>>, NoReason)>>

\* Lines 118-122: the line printed for one argument.
report(em) ==
  LET r == validate_email(Str(em))
  IN  IF r.valid THEN Line("[VALID]   {em}", em, NoReason)
      ELSE Line("[INVALID] {em}  -> {reason}", em, r.reason)

InitCli ==
  /\ argv = <<>>
  /\ idx = 0
  /\ stdout = <<>>
  /\ exit_code = -1
  /\ calls = 0
  /\ pc = "shell"
  /\ email = NoValue
  /\ result = NoResult

\* Line 125-126: the script is run with some arguments and main is entered.
Exec ==
  /\ pc = "shell"
  /\ argv' \in ArgLists(MaxArgs)
  /\ pc' = "main"
  /\ UNCHANGED <<email, result, idx, stdout, exit_code, calls>>

\* Lines 112-115: no argument, the usage text and sys.exit(0).
Usage ==
  /\ pc = "main"
  /\ Len(argv) + 1 = 1
  /\ stdout' = stdout \o UsageText
  /\ exit_code' = 0
  /\ pc' = "exited"
  /\ UNCHANGED <<email, result, argv, idx, calls>>

\* Lines 117-122: one turn of the loop over sys.argv[1:].
Report ==
  /\ pc = "main"
  /\ Len(argv) + 1 # 1
  /\ idx < Len(argv)
  /\ stdout' = Append(stdout, report(argv[idx + 1]))
  /\ calls' = calls + 1
  /\ idx' = idx + 1
  /\ UNCHANGED <<email, result, argv, exit_code, pc>>

\* Mutant of Return: the exit status tells whether every address was valid.
Return_status ==
  /\ pc = "main"
  /\ Len(argv) + 1 # 1
  /\ idx = Len(argv)
  /\ exit_code' = IF \A i \in 1..Len(argv) : validate_email(Str(argv[i])).valid THEN 0 ELSE 1
  /\ pc' = "exited"
  /\ UNCHANGED <<email, result, argv, idx, stdout, calls>>

\* Lines 117, 125-126: the loop is over, main returns and the script ends.
Return ==
  /\ pc = "main"
  /\ Len(argv) + 1 # 1
  /\ idx = Len(argv)
  /\ exit_code' = 0
  /\ pc' = "exited"
  /\ UNCHANGED <<email, result, argv, idx, stdout, calls>>

NextCli == Exec \/ Usage \/ Report \/ Return

\* A sequential process runs on until it exits.
SpecCli == InitCli /\ [][NextCli]_vars /\ WF_vars(NextCli)

(***************************************************************************)
(* Vocabulary of the properties: the parts of an address, defined on the   *)
(* text itself and independently of the operators validate_email uses.     *)
(***************************************************************************)
RECURSIVE DropLeading(_)
DropLeading(t) ==
  IF t # <<>> /\ Head(t) \in Whitespace THEN DropLeading(Tail(t)) ELSE t

RECURSIVE DropTrailing(_)
DropTrailing(t) ==
  IF t # <<>> /\ t[Len(t)] \in Whitespace
  THEN DropTrailing(SubSeq(t, 1, Len(t) - 1)) ELSE t

Trimmed(t) == DropTrailing(DropLeading(t))

Positions(t, c) == {i \in 1..Len(t) : t[i] = c}
NumAt(t) == Cardinality(Positions(t, "@"))

\* The text before and after the last '@' of a text that holds one.
LocalOf(t) == SubSeq(t, 1, SetMax(Positions(t, "@")) - 1)
DomainOf(t) == SubSeq(t, SetMax(Positions(t, "@")) + 1, Len(t))

RECURSIVE LabelsOf(_)
LabelsOf(d) ==
  IF Positions(d, ".") = {} THEN <<d>>
  ELSE LET p == SetMax(Positions(d, "."))
       IN  Append(LabelsOf(SubSeq(d, 1, p - 1)), SubSeq(d, p + 1, Len(d)))

TldOf(t) == LET ls == LabelsOf(DomainOf(t)) IN ls[Len(ls)]

EdgeDot(s) == s # <<>> /\ (s[1] = "." \/ s[Len(s)] = ".")
DotDot(s) == \E i \in 1..(Len(s) - 1) : SubSeq(s, i, i + 1) = <<".", ".">>

\* A label as the specification wants it.
LabelWellFormed(l) ==
  /\ Len(l) >= 1
  /\ Len(l) <= 63
  /\ l[1] \in AlNum
  /\ l[Len(l)] \in AlNum
  /\ \A i \in 1..Len(l) : l[i] \in AlNum \cup {"-"}

TldWellFormed(l) ==
  /\ Len(l) >= 2
  /\ Len(l) <= 63
  /\ \A i \in 1..Len(l) : l[i] \in Alpha

Returned == pc = "returned"
TextReturned == pc = "returned" /\ email.type = "str"

FailureReasons ==
  {R_NotStr, R_Empty, R_TooLong, R_AtCount, R_LocalEmpty, R_LocalLong,
   R_LocalEdgeDot, R_LocalDotDot, R_LocalChar, R_DomainEmpty, R_DomainLong,
   R_DomainEdgeDot, R_DomainDotDot, R_NoDot, R_LabelEmpty, R_LabelLong,
   R_LabelBad, R_Tld}

(***************************************************************************)
(* C1: validate_email returns a structured result for every value, text    *)
(* or not: Valid with "OK", or Invalid with one of its reasons; a value    *)
(* that is not text gets the "must be a string" reason whatever it holds,  *)
(* so none of the later checks decided its result.                         *)
(***************************************************************************)
C1_Total ==
  Returned =>
    /\ result.valid \in BOOLEAN
    /\ result.valid => result.reason = [msg |-> "OK", arg |-> <<>>]
    /\ ~result.valid => result.reason.msg \in FailureReasons
    /\ email.type # "str" =>
         result = [valid |-> FALSE, reason |-> [msg |-> R_NotStr, arg |-> <<>>]]

C1_Witness ==
  /\ Returned
  /\ email.type = "bytes"
  /\ email.val = <<"a", "@", "a", ".", "a", "a">>
  /\ result.reason.msg = R_NotStr

(***************************************************************************)
(* C3, as stated: every text whose number of '@' is not 1 is Invalid with  *)
(* the reason that reports the '@' count.                                  *)
(***************************************************************************)
C3_AtCountOriginal ==
  (TextReturned /\ NumAt(email.val) # 1) =>
    (~result.valid /\ result.reason.msg = R_AtCount)

(***************************************************************************)
(* C3, amended: every text whose number of '@' is not 1 is Invalid, and    *)
(* the reason is the one that reports the '@' count when the trimmed text  *)
(* is not empty and is at most 254 characters long.                        *)
(***************************************************************************)
C3_AtCountAmended ==
  (TextReturned /\ NumAt(email.val) # 1) =>
    /\ ~result.valid
    /\ (Trimmed(email.val) # <<>> /\ Len(Trimmed(email.val)) <= 254) =>
         result.reason.msg = R_AtCount

C3_Witness ==
  /\ TextReturned
  /\ NumAt(email.val) = 2
  /\ LocalOf(email.val) = <<"a", "@">>
  /\ result.reason.msg = R_AtCount

(***************************************************************************)
(* C4: in every text judged Valid, every label of the domain is 1 to 63    *)
(* characters long, starts and ends with a letter or digit and holds only  *)
(* letters, digits and hyphens.                                            *)
(***************************************************************************)
C4_ValidLabelsWellFormed ==
  (TextReturned /\ result.valid /\ NumAt(Trimmed(email.val)) >= 1) =>
    LET ls == LabelsOf(DomainOf(Trimmed(email.val)))
    IN  \A i \in 1..Len(ls) : LabelWellFormed(ls[i])

(***************************************************************************)
(* C5: a text whose final label holds a character that is not a letter,    *)
(* or is one character long, is Invalid; in a Valid text the final label   *)
(* is 2 to 63 letters.                                                     *)
(***************************************************************************)
C5_Tld ==
  TextReturned =>
    LET t == Trimmed(email.val)
    IN  /\ NumAt(t) >= 1 =>
             (((\E i \in 1..Len(TldOf(t)) : TldOf(t)[i] \notin Alpha)
                 \/ Len(TldOf(t)) = 1) => ~result.valid)
        /\ result.valid => (NumAt(t) >= 1 /\ TldWellFormed(TldOf(t)))

C5_Witness ==
  /\ TextReturned
  /\ email.val = <<"a", "@", "a", ".", "a", "1">>
  /\ result.reason.msg = R_Tld

(***************************************************************************)
(* C6: a text whose local part is empty, starts or ends with '.', or       *)
(* holds '..', and a text whose domain has an empty label, is Invalid.     *)
(* The parts are read off the text as given and off the trimmed text.      *)
(***************************************************************************)
C6_EmptyParts ==
  TextReturned =>
    \A t \in {email.val, Trimmed(email.val)} :
      NumAt(t) >= 1 =>
        LET l == LocalOf(t)
            ls == LabelsOf(DomainOf(t))
        IN  (\/ l = <<>>
             \/ EdgeDot(l)
             \/ DotDot(l)
             \/ \E i \in 1..Len(ls) : ls[i] = <<>>) => ~result.valid

C6_Witness ==
  /\ TextReturned
  /\ email.val = <<"a", ".", "@", "a", ".", "a", "a">>
  /\ result.reason.msg = R_LocalEdgeDot

(***************************************************************************)
(* C7: a text that passes every check up to the local part's dot rules     *)
(* and whose local part holds a character outside the allowed set is       *)
(* Invalid, and the reason names the leftmost such character and no other  *)
(* one; in a Valid text every character of the local part is allowed.      *)
(***************************************************************************)
C7_LocalChar ==
  TextReturned =>
    LET t == Trimmed(email.val)
        l == LocalOf(t)
        bad == {i \in 1..Len(l) : l[i] \notin _LOCAL_ALLOWED}
    IN  /\ (/\ t # <<>>
            /\ Len(t) <= 254
            /\ NumAt(t) = 1
            /\ l # <<>>
            /\ Len(l) <= 64
            /\ ~EdgeDot(l)
            /\ ~DotDot(l)
            /\ bad # {}) =>
              /\ ~result.valid
              /\ result.reason.msg = R_LocalChar
              /\ result.reason.arg = repr(l[SetMin(bad)])
              /\ \A c \in Alphabet \ {l[SetMin(bad)]} : repr(c) # result.reason.arg
        /\ result.valid =>
              (NumAt(t) >= 1 /\ \A i \in 1..Len(l) : l[i] \in _LOCAL_ALLOWED)

C7_Witness ==
  /\ TextReturned
  /\ email.val = <<"a", " ", "\n", "@", "a", ".", "a", "a">>
  /\ result.reason.arg = <<"'", " ", "'">>

(***************************************************************************)
(* The rules in the order of C2, each with the reason that reports it.     *)
(* The rules of the parts apply to a text with exactly one '@'.  A label   *)
(* must match the pattern of the specification, or, with asCoded, the      *)
(* regular expression of the code.                                         *)
(***************************************************************************)
LabelRules(ls, asCoded) ==
  [k \in 1..(3 * Len(ls)) |->
     LET label == ls[((k - 1) \div 3) + 1]
     IN  CASE (k - 1) % 3 = 0 -> <<label = <<>>, R_LabelEmpty>>
           [] (k - 1) % 3 = 1 -> <<Len(label) > 63, R_LabelLong>>
           [] OTHER           -> <<IF asCoded THEN ~_label_re(label)
                                    ELSE ~LabelWellFormed(label), R_LabelBad>>]

Rules(t, asCoded) ==
  <<  <<t = <<>>, R_Empty>>,
      <<Len(t) > 254, R_TooLong>>,
      <<NumAt(t) # 1, R_AtCount>> >> \o
  (IF NumAt(t) # 1 THEN <<>>
   ELSE LET l == LocalOf(t)
            d == DomainOf(t)
            ls == LabelsOf(d)
        IN  <<  <<l = <<>>, R_LocalEmpty>>,
                <<Len(l) > 64, R_LocalLong>>,
                <<EdgeDot(l), R_LocalEdgeDot>>,
                <<DotDot(l), R_LocalDotDot>>,
                <<\E i \in 1..Len(l) : l[i] \notin _LOCAL_ALLOWED, R_LocalChar>>,
                <<d = <<>>, R_DomainEmpty>>,
                <<Len(d) > 255, R_DomainLong>>,
                <<EdgeDot(d), R_DomainEdgeDot>>,
                <<DotDot(d), R_DomainDotDot>>,
                <<Len(ls) < 2, R_NoDot>> >>
            \o LabelRules(ls, asCoded)
            \o << <<~TldWellFormed(ls[Len(ls)]), R_Tld>> >>)

Violated(rules) == {k \in 1..Len(rules) : rules[k][1]}

(***************************************************************************)
(* C2: for every text that violates more than one rule, the reason         *)
(* returned is that of the earliest violated rule in the fixed order; a    *)
(* label's rule is the pattern of the specification: it starts and ends    *)
(* with a letter or digit and holds only letters, digits and hyphens.      *)
(***************************************************************************)
C2_EarliestRule ==
  TextReturned =>
    LET rules == Rules(Trimmed(email.val), FALSE)
    IN  Cardinality(Violated(rules)) >= 2 =>
          (~result.valid /\ result.reason.msg = rules[SetMin(Violated(rules))][2])

(***************************************************************************)
(* C2 with the label's rule read as the match of _label_re, the check the  *)
(* code makes: the order of the checks is the order of C2 for every text   *)
(* that violates at least one rule.                                        *)
(***************************************************************************)
C2_OrderOfCodeChecks ==
  TextReturned =>
    LET rules == Rules(Trimmed(email.val), TRUE)
    IN  IF Violated(rules) = {} THEN result.valid
        ELSE ~result.valid /\ result.reason.msg = rules[SetMin(Violated(rules))][2]

C2_Witness ==
  /\ TextReturned
  /\ email.val = <<".", "@", "-">>
  /\ Cardinality(Violated(Rules(email.val, FALSE))) >= 2
  /\ result.reason.msg = R_LocalEdgeDot

(***************************************************************************)
(* C8: whitespace around a text does not change the result, so no padding  *)
(* makes a Valid text Invalid; a text of whitespace only is Invalid with   *)
(* the "empty after stripping whitespace" reason.                          *)
(***************************************************************************)
Pads == TextsOver(Whitespace \cap Alphabet, MaxPad)

C8_PaddingIgnored ==
  TextReturned =>
    /\ \A w1 \in Pads, w2 \in Pads :
         validate_email([type |-> "str", val |-> w1 \o email.val \o w2]) = result
    /\ (\A i \in 1..Len(email.val) : email.val[i] \in Whitespace) =>
         (~result.valid /\ result.reason.msg = R_Empty)

C8_Witness ==
  /\ TextReturned
  /\ Len(email.val) = 254
  /\ result.valid

(***************************************************************************)
(* C9: the command-line wrapper ends, and when it has ended its exit       *)
(* status is 0; with no argument it has printed the usage text only and    *)
(* validated nothing; with n >= 1 arguments it has printed n lines, the    *)
(* i-th about the i-th argument, tagged [VALID] exactly when               *)
(* validate_email accepts the argument and otherwise [INVALID] with        *)
(* validate_email's reason.                                                *)
(***************************************************************************)
CliOutcome ==
  /\ exit_code = 0
  /\ IF argv = <<>>
     THEN stdout = UsageText /\ calls = 0
     ELSE /\ Len(stdout) = Len(argv)
          /\ \A i \in 1..Len(argv) :
               LET r == validate_email([type |-> "str", val |-> argv[i]])
               IN  /\ stdout[i].em = argv[i]
                   /\ stdout[i].text = "[VALID]   {em}" <=> r.valid
                   /\ ~r.valid => /\ stdout[i].text = "[INVALID] {em}  -> {reason}"
                                  /\ stdout[i].reason = r.reason

C9_Cli == [](pc = "exited" => CliOutcome) /\ <>(pc = "exited")

C9_Witness ==
  /\ pc = "exited"
  /\ Len(argv) = 2
  /\ stdout[1].text = "[INVALID] {em}  -> {reason}"
  /\ stdout[2].text = "[VALID]   {em}"
  /\ exit_code = 0

(***************************************************************************)
(* C10: validate_email never returns the "Domain part is too long" reason  *)
(* nor the "Empty domain label" reason, and each of its other reasons is   *)
(* returned for the text listed with it here.                              *)
(***************************************************************************)
ReasonSamples ==
  {[reason |-> R_NotStr, input |-> NoValue],
   [reason |-> R_Empty, input |-> Str(<<>>)],
   [reason |-> R_TooLong, input |-> Str(Rep("a", 255))],
   [reason |-> R_AtCount, input |-> Str(<<"a">>)],
   [reason |-> R_LocalEmpty, input |-> Str(<<"@", "a">>)],
   [reason |-> R_LocalLong, input |-> Str(Rep("a", 65) \o <<"@", "a", ".", "a", "a">>)],
   [reason |-> R_LocalEdgeDot, input |-> Str(<<".", "@", "a">>)],
   [reason |-> R_LocalDotDot, input |-> Str(<<"a", ".", ".", "a", "@", "a", ".", "a", "a">>)],
   [reason |-> R_LocalChar, input |-> Str(<<"a", " ", "@">>)],
   [reason |-> R_DomainEmpty, input |-> Str(<<"a", "@">>)],
   [reason |-> R_DomainEdgeDot, input |-> Str(<<"a", "@", ".">>)],
   [reason |-> R_DomainDotDot, input |-> Str(<<"a", "@", "a", ".", ".", "a">>)],
   [reason |-> R_NoDot, input |-> Str(<<"a", "@", "a">>)],
   [reason |-> R_LabelLong, input |-> Str(<<"a", "@">> \o Rep("a", 64) \o <<".", "a", "a">>)],
   [reason |-> R_LabelBad, input |-> Str(<<"a", "@", "-", ".", "a">>)],
   [reason |-> R_Tld, input |-> Str(<<"a", "@", "a", ".", "1">>)]}

SamplesCoverTheRest ==
  /\ {p.reason : p \in ReasonSamples} = FailureReasons \ {R_DomainLong, R_LabelEmpty}
  /\ \A p \in ReasonSamples : p.input \in Inputs

C10_UnreachableReasons ==
  Returned =>
    /\ result.reason.msg \notin {R_DomainLong, R_LabelEmpty}
    /\ SamplesCoverTheRest
    /\ \A p \in ReasonSamples : email = p.input => result.reason.msg = p.reason

C10_Witness ==
  /\ TextReturned
  /\ NumAt(email.val) = 1
  /\ Len(DomainOf(email.val)) > 255
  /\ result.reason.msg = R_TooLong

====
